---- MODULE Spec2Model ----
(***************************************************************************)
(* The check-and-notify pipeline of the social media bot: the scheduler's  *)
(* check cycle (scheduler.js), the three pollers' checkForNew (youtube.js, *)
(* instagram.js, linkedin.js), the store (database.js) and the dispatcher  *)
(* (discord.js).  Every await of the JavaScript code is a step boundary:   *)
(* between two steps of one cycle any other handler may run.               *)
(* Time is counted in hours.                                               *)
(***************************************************************************)
EXTENDS Integers, Sequences, FiniteSets, TLC

\* ---------------------------------------------------------------- bounds
MaxTicks == 1        \* clock ticks after StartTime
MaxItems == 1        \* items published over a run, all sources together
MaxCycles == 2       \* handlers (cycles, commands) that can be in flight at once
MaxSends == 2        \* messages the channel accepts for one item
MaxRuns == 2         \* handlers (cycles, commands) started over a run
MaxFetched == 3      \* items in a fetched list given from the start
StartTime == 30      \* the clock at the first process start
MaxScrapes == 2      \* scrapeProfile calls over a run
ScrapeStart == 1000  \* the clock, in units of 5 seconds, at the first scrapeProfile
MaxCalls == 2        \* calls of the scheduler's start, stop, updateCheckInterval

\* ------------------------------------------------------ program constants
OneHour == 1         \* scheduler.js sendErrorSummary: 60 * 60 * 1000 ms
DayHours == 24       \* checkForNew*: Date.now() - 24 * 60 * 60 * 1000
RetentionHours == 720 \* database.js cleanupOldNotifications: '-30 days'
Null == -1           \* SQL NULL / JavaScript null in a numeric column
MinInterval == 5     \* scheduler.js updateCheckInterval: minutes < 5
MaxInterval == 1440  \* scheduler.js updateCheckInterval: minutes > 1440
DefaultInterval == 30 \* config: parseInt(CHECK_INTERVAL_MINUTES) || 30
MinutesPerHour == 60 \* the minute field of a cron expression: 0..59
RateLimitDelay == 2  \* instagram.js rateLimitDelay: 10000 ms, in units of 5 s
MaxRetries == 3      \* instagram.js maxRetries
RetryBase == 6       \* instagram.js scrapeProfile: 30000 ms, in units of 5 s
FetchTimeout == 3    \* instagram.js axios timeout: 15000 ms, in units of 5 s

Platforms == {"youtube", "instagram", "linkedin"}
\* the order in which performScheduledCheck and /check-now visit the pollers
CheckOrder == <<"youtube", "instagram", "linkedin">>
\* the pollers /reset-platforms runs after clearing last_updates
ResetOrder == <<"youtube", "instagram">>

VARIABLES
  now,          \* the wall clock (Date.now(), CURRENT_TIMESTAMP)
  feed,         \* what each source currently publishes, most recent first
  configured,   \* the pollers whose isConfigured() is true
  lastUpdates,  \* table last_updates, one row per platform
  sentNotifications, \* table sent_notifications, a set of rows
  channel,      \* messages the announcement channel accepted
  proc,         \* the process: "down" (not started, killed, exited), "up", "failed"
                \* (exit 1), or where its shutdown() stands
  isReady,      \* DiscordService.isReady (and announcementChannel set)
  isRunning,    \* Scheduler.isRunning
  tasks,        \* Scheduler.tasks: the Map's entries, one task per name
  cronTasks,    \* the node-cron tasks that are started and not stopped
  checkIntervalMinutes, \* config.bot.checkIntervalMinutes
  api,          \* history: the scheduler calls made and the last one's outcome
  cronClock,    \* the wall clock's minute and the main-check ticks seen on it
  ig,           \* InstagramService: its fields and its scrapeProfile calls
  silent,       \* the sources whose server accepts a request and never answers
  initialTimers, \* pending setTimeout(performScheduledCheck, 5000) timers
  lastErrorSummaryTime, \* Scheduler.lastErrorSummaryTime || 0
  cyc,          \* the in-flight handlers, one record per slot
  runs,         \* handlers started so far
  owed,         \* history: items whose delivery was attempted or cut short
  crashed       \* history: what the last crash interrupted

vars == <<now, feed, configured, lastUpdates, sentNotifications, channel,
          proc, isReady, isRunning, tasks, cronTasks, checkIntervalMinutes,
          api, cronClock, ig, silent, initialTimers,
          lastErrorSummaryTime, cyc, runs, owed, crashed>>

\* ------------------------------------------------------------ the store
NoRow == [present |-> FALSE, check |-> Null, cid |-> Null, cts |-> Null]

\* database.getLastUpdate: the row, or undefined
GetLastUpdate(lu, p) == lu[p]

\* updateLastCheck storing the content's timestamp as the check time
UpdateLastCheckStale(lu, p, contentId, contentTs, t) ==
  [lu EXCEPT ![p] = [present |-> TRUE, check |-> contentTs, cid |-> contentId,
                     cts |-> contentTs]]

\* database.updateLastCheck: INSERT OR REPLACE keyed on platform
UpdateLastCheck(lu, p, contentId, contentTs, t) ==
  [lu EXCEPT ![p] = [present |-> TRUE, check |-> t, cid |-> contentId, cts |-> contentTs]]

\* database.isNotificationSent: SELECT id ... WHERE platform = ? AND content_id = ?
IsNotificationSent(sn, p, id) ==
  \E r \in sn : r.platform = p /\ r.content_id = id

\* recordSentNotification leaving discord_message_id empty
RecordSentNotificationUnlinked(sn, p, id, msg, t) ==
  {r \in sn : ~(r.platform = p /\ r.content_id = id)}
    \cup {[platform |-> p, content_id |-> id, msg |-> Null, sent_at |-> t]}

\* recordSentNotification as a plain INSERT without the unique key
RecordSentNotificationInsert(sn, p, id, msg, t) ==
  sn \cup {[platform |-> p, content_id |-> id, msg |-> msg, sent_at |-> t]}

\* database.recordSentNotification: INSERT OR REPLACE under UNIQUE(platform, content_id)
RecordSentNotification(sn, p, id, msg, t) ==
  {r \in sn : ~(r.platform = p /\ r.content_id = id)}
    \cup {[platform |-> p, content_id |-> id, msg |-> msg, sent_at |-> t]}

\* a sweep that also removes the rows that are exactly 30 days old
CleanupOldNotificationsInclusive(sn, t) == {r \in sn : ~(r.sent_at <= t - RetentionHours)}

\* database.cleanupOldNotifications: DELETE ... WHERE sent_at < datetime('now', '-30 days')
CleanupOldNotifications(sn, t) == {r \in sn : ~(r.sent_at < t - RetentionHours)}

\* this.changes after the DELETE: the number of rows it removed
Changes(sn, after) == Cardinality(sn \ after)

\* DELETE FROM last_updates (handleResetPlatformsCommand)
DeleteLastUpdates(lu) == [p \in Platforms |-> NoRow]

\* ------------------------------------------------------------ the pollers
\* the default cursor taken as the current time
LastCheckTimeNow(row, t) ==
  IF row.present /\ row.cts # Null THEN row.cts ELSE t

\* lastUpdate?.last_content_timestamp ? new Date(...) : new Date(Date.now() - 24h)
LastCheckTime(row, t) ==
  IF row.present /\ row.cts # Null THEN row.cts ELSE t - DayHours

\* the filter with >= in place of >
FilterNewInclusive(items, cursor) == SelectSeq(items, LAMBDA it : it.ts >= cursor)

\* result.videos.filter(video => video.publishedAt > lastCheckTime)
FilterNew(items, cursor) == SelectSeq(items, LAMBDA it : it.ts > cursor)

\* the second filter left out: every item newer than the cursor is kept
FilterUnseenAll(items, sn, p) == items

\* the loop over newVideos keeping those with !alreadySent
FilterUnseen(items, sn, p) ==
  SelectSeq(items, LAMBDA it : ~IsNotificationSent(sn, p, it.id))

\* the cursor taken from the last fetched item instead of the first
AdvanceCursorOldest(lu, p, items, t) ==
  IF items # <<>>
    THEN UpdateLastCheck(lu, p, items[Len(items)].id, items[Len(items)].ts, t)
    ELSE IF p = "youtube" THEN lu ELSE UpdateLastCheck(lu, p, Null, Null, t)

\* the store after the "Update last check time" block of checkForNew*:
\* YouTube writes only when a latest video exists, Instagram and LinkedIn
\* write nulls when nothing was fetched
AdvanceCursor(lu, p, items, t) ==
  IF items # <<>>
    THEN UpdateLastCheck(lu, p, items[1].id, items[1].ts, t)
    ELSE IF p = "youtube" THEN lu ELSE UpdateLastCheck(lu, p, Null, Null, t)

\* the store after the catch block of checkForNew*: only Instagram's catch
\* writes; ok says whether that write succeeded
CatchUpdate(lu, p, ok, t) ==
  IF p = "instagram" /\ ok THEN UpdateLastCheck(lu, p, Null, Null, t) ELSE lu

Ids(items) == {items[i].id : i \in 1..Len(items)}

\* ------------------------------------------------------------ handlers
IdleCycle ==
  [kind |-> "none", pc |-> "idle", pi |-> 0, lastUpdate |-> NoRow,
   lastCheckTime |-> 0, fetched |-> <<>>, si |-> 0,
   results |-> [p \in Platforms |-> "none"],
   totalChecked |-> [p \in Platforms |-> 0],
   newContent |-> [p \in Platforms |-> <<>>],
   attempted |-> {}, recorded |-> {}, updated |-> {}, delayed |-> {},
   message |-> 0,
   sumNow |-> 0,
   affectedRows |-> Null,
   mustReport |-> {}]

Slots == 1..MaxCycles

\* the pollers a handler of this kind visits, in order
PlatformsOf(kind) ==
  SelectSeq(IF kind = "reset" THEN ResetOrder ELSE CheckOrder,
            LAMBDA p : p \in configured)

Cur(r) == PlatformsOf(r.kind)[r.pi]

InFlight(c) == cyc[c].pc # "idle"

\* a clock on which no main-check tick has been seen
NoClock == [minute |-> 0, since |-> Null, gap |-> Null]

\* a scrapeProfile call that has not been made
IdleCall ==
  [pc |-> "idle", attempt |-> 0, wake |-> 0, fetches |-> 0, last |-> "none",
   wait |-> 0, result |-> "none"]

\* new InstagramService(): lastRequestTime = 0, failureCount = 0
NoScrape ==
  [t |-> ScrapeStart, lastRequestTime |-> 0, failureCount |-> 0,
   calls |-> [k \in 1..MaxScrapes |-> IdleCall]]

\* no call of the scheduler made yet
NoCall ==
  [calls |-> 0, op |-> "none", arg |-> 0, res |-> "none", was |-> FALSE,
   early |-> FALSE]

\* performScheduledCheck runs and /check-now runs in flight
CheckCycles == {c \in Slots : cyc[c].kind \in {"sched", "cmd"}}

\* the deployments considered: which pollers have their credentials set
Deployments == {{"youtube", "instagram"}, {"instagram", "linkedin"}, Platforms}

Init ==
  /\ now = StartTime
  /\ feed = [p \in Platforms |-> <<>>]
  /\ configured \in Deployments
  /\ lastUpdates = [p \in Platforms |-> NoRow]
  /\ sentNotifications = {}
  /\ channel = {}
  /\ proc = "down"
  /\ isReady = FALSE
  /\ isRunning = FALSE
  /\ tasks = {}
  /\ cronTasks = {}
  /\ checkIntervalMinutes = DefaultInterval
  /\ api = NoCall
  /\ cronClock = NoClock
  /\ ig = NoScrape
  /\ silent = {}
  /\ initialTimers = 0
  /\ lastErrorSummaryTime = 0
  /\ cyc = [c \in Slots |-> IdleCycle]
  /\ runs = 0
  /\ owed = {}
  /\ crashed = {}

\* ------------------------------------------------------------ environment
Tick ==
  /\ now < StartTime + MaxTicks
  /\ now' = now + 1
  /\ UNCHANGED <<feed, runs, configured, lastUpdates, sentNotifications, channel,
                 proc, isReady, isRunning, tasks, cronTasks,
                 checkIntervalMinutes, api, cronClock, ig, silent, initialTimers,
                 lastErrorSummaryTime, cyc, owed, crashed>>

Published == Len(feed["youtube"]) + Len(feed["instagram"]) + Len(feed["linkedin"])

\* a source the bot follows publishes a new item, stamped with the current time
Publish(p) ==
  /\ p \in configured
  /\ Published < MaxItems
  /\ IF feed[p] = <<>> THEN TRUE ELSE feed[p][1].ts < now
  /\ feed' = [feed EXCEPT ![p] = <<[id |-> Len(feed[p]) + 1, ts |-> now]>> \o feed[p]]
  /\ UNCHANGED <<now, runs, configured, lastUpdates, sentNotifications, channel,
                 proc, isReady, isRunning, tasks, cronTasks,
                 checkIntervalMinutes, api, cronClock, ig, silent, initialTimers,
                 lastErrorSummaryTime, cyc, owed, crashed>>


\* ------------------------------------------------------------ the process
\* what the process loses when it ends: every in-memory field
ProcessEnds ==
  /\ isReady' = FALSE
  /\ isRunning' = FALSE
  /\ tasks' = {}
  /\ cronTasks' = {}
  /\ checkIntervalMinutes' = DefaultInterval
  /\ initialTimers' = 0
  /\ lastErrorSummaryTime' = 0
  /\ cyc' = [c \in Slots |-> IdleCycle]
  /\ UNCHANGED <<api, cronClock, ig, silent>>

\* the identities of the task objects in a set of tasks
TaskIds(ts) == {t.id : t \in ts}

\* a task object the given ones are not
NewId(used) == CHOOSE i \in 1..(Cardinality(used) + 1) : i \notin used

\* cron.schedule(expression, handler, {scheduled: false}): a new task object;
\* every is N of the expression '*/N * * * *' and 0 for '0 2 * * *'
Schedule(name, every, used) == [name |-> name, every |-> every, id |-> NewId(used)]

\* Map.set(name, task)
MapSet(ts, t) == {u \in ts : u.name # t.name} \cup {t}

\* Scheduler.start(): the Map after the call; used holds the task objects
\* that exist when the caller is entered
StartTasks(running, ts, every, used) ==
  IF running THEN ts
  ELSE LET main == Schedule("main-check", every, used)
           cleanup == Schedule("daily-cleanup", 0, used \cup {main.id})
       IN MapSet(MapSet(ts, main), cleanup)

\* Scheduler.start(): task.start() for every task of the Map
StartCron(running, cron, ts) == IF running THEN cron ELSE cron \cup ts

\* a start() that sets its timer before looking at isRunning
StartTimersAlways(running, n) == n + 1

\* Scheduler.start(): the pending initial-check timers after the call
StartTimers(running, n) == IF running THEN n ELSE n + 1

\* a stop() without this.tasks.clear()
StopTasksKeeping(running, ts) == ts

\* Scheduler.stop(): the Map after the call
StopTasks(running, ts) == IF running THEN {} ELSE ts

\* a stop() that clears the Map without stopping its tasks
StopCronLeaking(running, cron, ts) == cron

\* Scheduler.stop(): task.stop() for every task of the Map
StopCron(running, cron, ts) == IF running THEN cron \ ts ELSE cron

\* SocialMediaBot.start(): the store is opened, the client becomes ready,
\* the scheduler starts
Boot ==
  /\ proc # "up"
  /\ proc' = "up"
  /\ isReady' = TRUE
  /\ tasks' = StartTasks(isRunning, tasks, checkIntervalMinutes, TaskIds(cronTasks))
  /\ cronTasks' = StartCron(isRunning, cronTasks, tasks')
  /\ initialTimers' = StartTimers(isRunning, initialTimers)
  /\ isRunning' = TRUE
  /\ crashed' = {}
  /\ UNCHANGED <<now, runs, feed, configured, lastUpdates, sentNotifications, channel,
                 checkIntervalMinutes, api, cronClock, ig, silent, lastErrorSummaryTime, cyc, owed>>

\* the items a scheduled cycle had determined as new and not yet handed to
\* the channel, with the row it read before its check
Interrupted ==
  {[p |-> Cur(cyc[c]), pre |-> cyc[c].lastUpdate,
    ids |-> {cyc[c].newContent[Cur(cyc[c])][i].id :
               i \in (IF cyc[c].pc = "send" THEN cyc[c].si ELSE cyc[c].si + 1)
                       ..Len(cyc[c].newContent[Cur(cyc[c])])}] :
     c \in {d \in Slots : cyc[d].kind = "sched" /\ cyc[d].pc \in {"send", "record"}}}

\* the process is killed (power loss, SIGKILL, OOM): the store survives
Crash ==
  /\ proc = "up"
  /\ proc' = "down"
  /\ ProcessEnds
  /\ crashed' = Interrupted
  /\ owed' = owed \cup
       UNION {{[p |-> x.p, id |-> i, why |-> "crash"] : i \in x.ids} : x \in Interrupted}
  /\ UNCHANGED <<now, runs, feed, configured, lastUpdates, sentNotifications, channel>>

\* the client's 'disconnect' event
Disconnect ==
  /\ proc = "up"
  /\ isReady
  /\ isReady' = FALSE
  /\ UNCHANGED <<now, runs, feed, configured, lastUpdates, sentNotifications, channel,
                 proc, isRunning, tasks, cronTasks,
                 checkIntervalMinutes, api, cronClock, ig, silent, initialTimers,
                 lastErrorSummaryTime, cyc, owed, crashed>>

\* ------------------------------------------------------------ triggers
FreeSlots == {c \in Slots : cyc[c].pc = "idle"}

\* the handler's record when it starts
StartRecord(kind) ==
  IF kind = "reset" THEN [IdleCycle EXCEPT !.kind = kind, !.pc = "delete"]
  ELSE IF kind = "cleanup" THEN [IdleCycle EXCEPT !.kind = kind, !.pc = "sweep"]
  ELSE IF PlatformsOf(kind) = <<>>
    THEN [IdleCycle EXCEPT !.kind = kind,
                           !.pc = IF kind = "sched" THEN "summary" ELSE "done"]
    ELSE [IdleCycle EXCEPT !.kind = kind, !.pc = "read", !.pi = 1]

\* a handler starts in the first free slot; nothing stops it from starting
\* while another one is in flight
Begin(kind) ==
  /\ proc = "up"
  /\ FreeSlots # {}
  /\ runs < MaxRuns
  /\ runs' = runs + 1
  /\ LET c == CHOOSE d \in FreeSlots : \A e \in FreeSlots : d <= e
     IN cyc' = [cyc EXCEPT ![c] = StartRecord(kind)]

\* the 'main-check' cron task fires: performScheduledCheck()
CronTick ==
  /\ \E t \in cronTasks : t.name = "main-check"
  /\ Begin("sched")
  /\ UNCHANGED <<now, feed, configured, lastUpdates, sentNotifications, channel,
                 proc, isReady, isRunning, tasks, cronTasks,
                 checkIntervalMinutes, api, cronClock, ig, silent, initialTimers,
                 lastErrorSummaryTime, owed, crashed>>

\* the 5 second timer set by start() fires: performScheduledCheck()
InitialCheck ==
  /\ initialTimers > 0
  /\ Begin("sched")
  /\ initialTimers' = initialTimers - 1
  /\ UNCHANGED <<now, feed, configured, lastUpdates, sentNotifications, channel,
                 proc, isReady, isRunning, tasks, cronTasks,
                 checkIntervalMinutes, api, cronClock, ig, silent,
                 lastErrorSummaryTime, owed, crashed>>

\* Scheduler.triggerManualCheck(): performScheduledCheck()
TriggerManualCheck ==
  /\ Begin("sched")
  /\ UNCHANGED <<now, feed, configured, lastUpdates, sentNotifications, channel,
                 proc, isReady, isRunning, tasks, cronTasks,
                 checkIntervalMinutes, api, cronClock, ig, silent, initialTimers,
                 lastErrorSummaryTime, owed, crashed>>

\* the /check-now slash command: handleCheckNowCommand
CheckNowCommand ==
  /\ Begin("cmd")
  /\ UNCHANGED <<now, feed, configured, lastUpdates, sentNotifications, channel,
                 proc, isReady, isRunning, tasks, cronTasks,
                 checkIntervalMinutes, api, cronClock, ig, silent, initialTimers,
                 lastErrorSummaryTime, owed, crashed>>

\* the /reset-platforms slash command: handleResetPlatformsCommand
ResetPlatformsCommand ==
  /\ Begin("reset")
  /\ UNCHANGED <<now, feed, configured, lastUpdates, sentNotifications, channel,
                 proc, isReady, isRunning, tasks, cronTasks,
                 checkIntervalMinutes, api, cronClock, ig, silent, initialTimers,
                 lastErrorSummaryTime, owed, crashed>>

\* ------------------------------------------------------------ check steps
\* /check-now sends after all checks: the first platform from index `from`
\* on whose result is a success with new content (0: none)
NextSendable(r, from) ==
  LET ps == PlatformsOf(r.kind)
      ok == {i \in from..Len(ps) : r.results[ps[i]] = "ok" /\ r.newContent[ps[i]] # <<>>}
  IN IF ok = {} THEN 0 ELSE CHOOSE i \in ok : \A j \in ok : i <= j

CmdAdvance(r, from) ==
  LET i == NextSendable(r, from)
  IN IF i = 0 THEN [r EXCEPT !.pc = "done"]
              ELSE [r EXCEPT !.pc = "send", !.pi = i, !.si = 1]

\* the handler moves on from its current poller: to the next poller, or to
\* what follows the last one
NextPlatform(r) ==
  IF r.pi < Len(PlatformsOf(r.kind))
    THEN [r EXCEPT !.pc = "read", !.pi = r.pi + 1, !.lastUpdate = NoRow,
                   !.lastCheckTime = 0, !.fetched = <<>>, !.si = 0,
                   !.mustReport = {}]
    ELSE LET q == [r EXCEPT !.lastUpdate = NoRow, !.lastCheckTime = 0,
                            !.fetched = <<>>, !.si = 0, !.mustReport = {}]
         IN CASE r.kind = "sched" -> [q EXCEPT !.pc = "summary"]
              [] r.kind = "cmd" -> CmdAdvance(q, 1)
              [] OTHER -> [q EXCEPT !.pc = "done"]

\* performScheduledCheck with one try/catch around all three checks: a
\* failed check ends the cycle
AfterCheckAborting(r) ==
  LET p == Cur(r)
  IN IF r.results[p] = "fail"
       THEN [r EXCEPT !.pc = IF r.kind = "sched" THEN "summary" ELSE "done"]
       ELSE IF r.kind = "sched" /\ r.newContent[p] # <<>>
         THEN [r EXCEPT !.pc = "send", !.si = 1]
         ELSE NextPlatform(r)

\* what the caller does with a poller's result: performScheduledCheck sends
\* the new content of a successful check before it moves on; the two slash
\* commands move on
AfterCheck(r) ==
  LET p == Cur(r)
  IN IF r.kind = "sched" /\ r.results[p] = "ok" /\ r.newContent[p] # <<>>
       THEN [r EXCEPT !.pc = "send", !.si = 1]
       ELSE NextPlatform(r)

\* the poller returned {success: false}
FailCheck(r) ==
  AfterCheck([r EXCEPT !.results[Cur(r)] = "fail", !.newContent[Cur(r)] = <<>>])

\* DELETE FROM last_updates, the first await of handleResetPlatformsCommand
ResetDelete(c) ==
  /\ cyc[c].pc = "delete"
  /\ \E ok \in BOOLEAN :
       /\ lastUpdates' = IF ok THEN DeleteLastUpdates(lastUpdates) ELSE lastUpdates
       /\ cyc' = [cyc EXCEPT ![c] =
            IF ok /\ PlatformsOf("reset") # <<>>
              THEN [cyc[c] EXCEPT !.pc = "read", !.pi = 1]
              ELSE [cyc[c] EXCEPT !.pc = "done"]]
  /\ UNCHANGED <<now, runs, feed, configured, sentNotifications, channel,
                 proc, isReady, isRunning, tasks, cronTasks,
                 checkIntervalMinutes, api, cronClock, ig, silent, initialTimers,
                 lastErrorSummaryTime, owed, crashed>>

\* await database.getLastUpdate(platform), and lastCheckTime from it
CheckRead(c) ==
  /\ cyc[c].pc = "read"
  /\ LET r == cyc[c]
         p == Cur(r)
     IN \E ok \in BOOLEAN, okc \in BOOLEAN :
          IF ok
            THEN /\ okc
                 /\ cyc' = [cyc EXCEPT ![c] =
                      [r EXCEPT !.pc = "fetch",
                                !.lastUpdate = GetLastUpdate(lastUpdates, p),
                                !.lastCheckTime =
                                   LastCheckTime(GetLastUpdate(lastUpdates, p), now)]]
                 /\ lastUpdates' = lastUpdates
            ELSE /\ cyc' = [cyc EXCEPT ![c] = FailCheck(r)]
                 /\ lastUpdates' = CatchUpdate(lastUpdates, p, okc, now)
  /\ UNCHANGED <<now, runs, feed, configured, sentNotifications, channel,
                 proc, isReady, isRunning, tasks, cronTasks,
                 checkIntervalMinutes, api, cronClock, ig, silent, initialTimers,
                 lastErrorSummaryTime, owed, crashed>>

\* the pollers whose axios.get carries a timeout (15000 ms): Instagram and
\* LinkedIn; the two requests of the YouTube poller carry none
TimedFetch == {"instagram", "linkedin"}

\* what a poller's fetch can return: a failure result, the source's items,
\* or a success without items (the scrapers' fallback, an empty playlist)
FetchResults(p) ==
  IF p \in silent
    THEN IF p \in TimedFetch THEN {[ok |-> FALSE, items |-> <<>>]} ELSE {}
    ELSE {[ok |-> FALSE, items |-> <<>>], [ok |-> TRUE, items |-> feed[p]],
          [ok |-> TRUE, items |-> <<>>]}

\* await getLatestVideos(10) / scrapeProfile(): never throws
CheckFetch(c) ==
  /\ cyc[c].pc = "fetch"
  /\ LET r == cyc[c]
     IN \E res \in FetchResults(Cur(r)) :
          cyc' = [cyc EXCEPT ![c] =
            IF res.ok THEN [r EXCEPT !.pc = "filter", !.fetched = res.items]
                      ELSE FailCheck(r)]
  /\ UNCHANGED <<now, runs, feed, configured, lastUpdates, sentNotifications, channel,
                 proc, isReady, isRunning, tasks, cronTasks,
                 checkIntervalMinutes, api, cronClock, ig, silent, initialTimers,
                 lastErrorSummaryTime, owed, crashed>>

\* the two filters: newer than lastCheckTime, then not yet recorded as sent
NewContent(r, sn) ==
  FilterUnseen(FilterNew(r.fetched, r.lastCheckTime), sn, Cur(r))

\* the filter loop with its isNotificationSent awaits
CheckFilter(c) ==
  /\ cyc[c].pc = "filter"
  /\ LET r == cyc[c]
         p == Cur(r)
         due == IF r.kind = "reset" THEN {}
                ELSE {o \in owed : o.p = p /\ o.id \in Ids(r.fetched)}
     IN \E ok \in BOOLEAN, okc \in BOOLEAN :
          IF ok
            THEN /\ okc
                 /\ cyc' = [cyc EXCEPT ![c] =
                      [r EXCEPT !.pc = "update",
                                !.newContent[p] = NewContent(r, sentNotifications),
                                !.mustReport = {[id |-> o.id, why |-> o.why] : o \in due}]]
                 /\ owed' = IF r.kind = "reset" THEN owed
                            ELSE {o \in owed : o.p # p}
                 /\ lastUpdates' = lastUpdates
            ELSE /\ FilterNew(r.fetched, r.lastCheckTime) # <<>>
                 /\ cyc' = [cyc EXCEPT ![c] = FailCheck(r)]
                 /\ owed' = owed
                 /\ lastUpdates' = CatchUpdate(lastUpdates, p, okc, now)
  /\ UNCHANGED <<now, runs, feed, configured, sentNotifications, channel,
                 proc, isReady, isRunning, tasks, cronTasks,
                 checkIntervalMinutes, api, cronClock, ig, silent, initialTimers,
                 lastErrorSummaryTime, crashed>>

\* the platforms whose cursor the handler has written, after this update
Updated(r, p) ==
  IF r.fetched # <<>> \/ p # "youtube" THEN r.updated \cup {p} ELSE r.updated

\* await database.updateLastCheck(...), then return {success: true, newContent}
CheckUpdate(c) ==
  /\ cyc[c].pc = "update"
  /\ LET r == cyc[c]
         p == Cur(r)
     IN \E ok \in BOOLEAN, okc \in BOOLEAN :
          IF ok
            THEN /\ okc
                 /\ lastUpdates' = AdvanceCursor(lastUpdates, p, r.fetched, now)
                 /\ cyc' = [cyc EXCEPT ![c] =
                      AfterCheck([r EXCEPT !.results[p] = "ok",
                                           !.totalChecked[p] = Len(r.fetched),
                                           !.updated = Updated(r, p)])]
            ELSE /\ ~(r.fetched = <<>> /\ p = "youtube")
                 /\ lastUpdates' = CatchUpdate(lastUpdates, p, okc, now)
                 /\ cyc' = [cyc EXCEPT ![c] = FailCheck(r)]
  /\ UNCHANGED <<now, runs, feed, configured, sentNotifications, channel,
                 proc, isReady, isRunning, tasks, cronTasks,
                 checkIntervalMinutes, api, cronClock, ig, silent, initialTimers,
                 lastErrorSummaryTime, owed, crashed>>


\* ------------------------------------------------------------ dispatch
\* the messages the channel accepted for one item
Delivered(ch, p, id) == {m \in ch : m.platform = p /\ m.id = id}

\* what channel.send can do: the guard on isReady throws before anything is
\* sent; the channel can reject; the channel can accept
SendOutcomes(p, id) ==
  IF ~isReady THEN {"notready"}
  ELSE IF Cardinality(Delivered(channel, p, id)) < MaxSends
    THEN {"ok", "chanerr"}
    ELSE {"chanerr"}

\* the id the channel gives its next message for this item
MessageId(ch, p, id) == Cardinality(Delivered(ch, p, id)) + 1

\* the channel after announcementChannel.send with this outcome
ChannelAfter(ch, p, id, out) ==
  IF out = "ok"
    THEN ch \cup {[platform |-> p, id |-> id, msg |-> MessageId(ch, p, id)]}
    ELSE ch

\* sendNotifications: the 1000 ms timer is awaited after an item whose
\* sendSocialMediaUpdate returned, when the batch has more than one item; a
\* throw goes to the catch and past the timer. The await changes nothing and
\* ends before the handler's next step
DelayedAfter(r, ok) ==
  IF r.kind = "sched" /\ ok /\ Len(r.newContent[Cur(r)]) > 1
    THEN r.delayed \cup {<<Cur(r), r.newContent[Cur(r)][r.si].id>>}
    ELSE r.delayed

\* after a send attempt: sendNotifications catches per item and goes on;
\* the loop of /check-now has no catch, a throw ends the command
AfterSend(r, ok) ==
  LET p == Cur(r)
      q == [r EXCEPT !.message = 0, !.delayed = DelayedAfter(r, ok)]
  IN IF r.kind = "sched"
       THEN IF r.si < Len(r.newContent[p]) THEN [q EXCEPT !.pc = "send", !.si = r.si + 1]
                                           ELSE NextPlatform(q)
       ELSE IF ~ok THEN [q EXCEPT !.pc = "done"]
            ELSE IF r.si < Len(r.newContent[p]) THEN [q EXCEPT !.pc = "send", !.si = r.si + 1]
                                                ELSE CmdAdvance(q, r.pi + 1)

\* sendSocialMediaUpdate recording the notification whatever the send did
AfterChannelSendRecording(r, out, msg) ==
  [r EXCEPT !.attempted = @ \cup {<<Cur(r), r.newContent[Cur(r)][r.si].id>>},
            !.pc = "record", !.message = msg]

\* sendSocialMediaUpdate once channel.send has settled: on success the
\* message is kept for recordSentNotification, on failure the error is thrown
AfterChannelSend(r, out, msg) ==
  LET q == [r EXCEPT !.attempted = @ \cup {<<Cur(r), r.newContent[Cur(r)][r.si].id>>}]
  IN IF out = "ok" THEN [q EXCEPT !.pc = "record", !.message = msg]
                   ELSE AfterSend(q, FALSE)

\* history: the items whose last send attempt the channel did not accept
OwedAfter(ow, p, id, out) ==
  IF out = "ok"
    THEN {o \in ow : ~(o.p = p /\ o.id = id)}
    ELSE ow \cup {[p |-> p, id |-> id, why |-> "sendfail"]}

\* sendSocialMediaUpdate up to await this.announcementChannel.send(...)
SendItem(c) ==
  /\ cyc[c].pc = "send"
  /\ LET r == cyc[c]
         p == Cur(r)
         id == r.newContent[p][r.si].id
     IN \E out \in SendOutcomes(p, id) :
          /\ channel' = ChannelAfter(channel, p, id, out)
          /\ owed' = OwedAfter(owed, p, id, out)
          /\ cyc' = [cyc EXCEPT ![c] =
               AfterChannelSend(r, out, MessageId(channel, p, id))]
  /\ UNCHANGED <<now, runs, feed, configured, lastUpdates, sentNotifications,
                 proc, isReady, isRunning, tasks, cronTasks,
                 checkIntervalMinutes, api, cronClock, ig, silent, initialTimers,
                 lastErrorSummaryTime, crashed>>

\* await database.recordSentNotification(platform, content.id, url, message.id)
RecordItem(c) ==
  /\ cyc[c].pc = "record"
  /\ LET r == cyc[c]
         p == Cur(r)
         id == r.newContent[p][r.si].id
     IN \E ok \in BOOLEAN :
          /\ sentNotifications' =
               IF ok THEN RecordSentNotification(sentNotifications, p, id, r.message, now)
                     ELSE sentNotifications
          /\ cyc' = [cyc EXCEPT ![c] =
               AfterSend([r EXCEPT !.recorded = IF ok THEN @ \cup {<<p, id>>} ELSE @], ok)]
  /\ UNCHANGED <<now, runs, feed, configured, lastUpdates, channel,
                 proc, isReady, isRunning, tasks, cronTasks,
                 checkIntervalMinutes, api, cronClock, ig, silent, initialTimers,
                 lastErrorSummaryTime, owed, crashed>>

\* sendErrorSummary sends when a check failed and the last summary is more
\* than an hour old
SummaryDue(r, t, last) ==
  /\ \E p \in Platforms : r.results[p] = "fail"
  /\ t - last > OneHour

\* the end of performScheduledCheck: sendErrorSummary up to its await
ErrorSummary(c) ==
  /\ cyc[c].pc = "summary"
  /\ cyc' = [cyc EXCEPT ![c] =
       IF SummaryDue(cyc[c], now, lastErrorSummaryTime)
         THEN [cyc[c] EXCEPT !.pc = "sumsend", !.sumNow = now]
         ELSE [cyc[c] EXCEPT !.pc = "done"]]
  /\ UNCHANGED <<now, runs, feed, configured, lastUpdates, sentNotifications,
                 channel, proc, isReady, isRunning, tasks, cronTasks,
                 checkIntervalMinutes, api, cronClock, ig, silent, initialTimers,
                 lastErrorSummaryTime, owed, crashed>>

\* sendErrorSummary without its try/catch: a failed summary send rejects
\* the cycle's promise
CycleOutcomeRejecting(out) == IF out = "ok" THEN "done" ELSE "rejected"

\* how performScheduledCheck settles once the summary send has settled:
\* every throw is caught and logged
CycleOutcome(out) == "done"

\* await discordService.sendMessage(errorMessage), then lastErrorSummaryTime
SummarySend(c) ==
  /\ cyc[c].pc = "sumsend"
  /\ LET r == cyc[c]
     IN \E out \in SendOutcomes("summary", r.sumNow) :
          /\ channel' = ChannelAfter(channel, "summary", r.sumNow, out)
          /\ IF CycleOutcome(out) = "done"
               THEN /\ cyc' = [cyc EXCEPT ![c] = [r EXCEPT !.pc = "done", !.sumNow = 0]]
                    /\ lastErrorSummaryTime' =
                         IF out = "ok" THEN r.sumNow ELSE lastErrorSummaryTime
                    /\ UNCHANGED <<proc, isReady, isRunning, tasks, cronTasks,
                                   checkIntervalMinutes, api, cronClock, ig, silent, initialTimers>>
               ELSE /\ proc' = "failed"
                    /\ ProcessEnds
  /\ UNCHANGED <<now, runs, feed, configured, lastUpdates, sentNotifications,
                 owed, crashed>>

\* how performDailyCleanup settles: every throw is caught and logged
CleanupOutcome(ok) == "done"

\* the 'daily-cleanup' cron task fires: performDailyCleanup starts
DailyCleanupTick ==
  /\ \E t \in cronTasks : t.name = "daily-cleanup"
  /\ Begin("cleanup")
  /\ UNCHANGED <<now, feed, configured, lastUpdates, sentNotifications, channel,
                 proc, isReady, isRunning, tasks, cronTasks,
                 checkIntervalMinutes, api, cronClock, ig, silent, initialTimers,
                 lastErrorSummaryTime, owed, crashed>>

\* await database.cleanupOldNotifications(), then the statistics are read
DailyCleanup(c) ==
  /\ cyc[c].pc = "sweep"
  /\ \E ok \in BOOLEAN :
       /\ sentNotifications' =
            IF ok THEN CleanupOldNotifications(sentNotifications, now)
                  ELSE sentNotifications
       /\ IF CleanupOutcome(ok) = "done"
            THEN /\ cyc' = [cyc EXCEPT ![c] =
                      [cyc[c] EXCEPT !.pc = "done",
                                     !.affectedRows =
                                        IF ok THEN Changes(sentNotifications,
                                                           sentNotifications')
                                              ELSE Null]]
                 /\ UNCHANGED <<proc, isReady, isRunning, tasks, cronTasks,
                                checkIntervalMinutes, api, cronClock, ig, silent, initialTimers,
                                lastErrorSummaryTime>>
            ELSE /\ proc' = "failed"
                 /\ ProcessEnds
  /\ UNCHANGED <<now, runs, feed, configured, lastUpdates, channel,
                 owed, crashed>>

\* the handler's promise settles
Finish(c) ==
  /\ cyc[c].pc = "done"
  /\ cyc' = [cyc EXCEPT ![c] = IdleCycle]
  /\ UNCHANGED <<now, runs, feed, configured, lastUpdates, sentNotifications, channel,
                 proc, isReady, isRunning, tasks, cronTasks,
                 checkIntervalMinutes, api, cronClock, ig, silent, initialTimers,
                 lastErrorSummaryTime, owed, crashed>>

Step(c) ==
  \/ ResetDelete(c)
  \/ CheckRead(c)
  \/ CheckFetch(c)
  \/ CheckFilter(c)
  \/ CheckUpdate(c)
  \/ SendItem(c)
  \/ RecordItem(c)
  \/ ErrorSummary(c)
  \/ SummarySend(c)
  \/ DailyCleanup(c)
  \/ Finish(c)

Environment ==
  \/ Tick
  \/ \E p \in Platforms : Publish(p)
  \/ Boot
  \/ Crash
  \/ Disconnect

Next ==
  \/ Environment
  \/ CronTick
  \/ InitialCheck
  \/ TriggerManualCheck
  \/ CheckNowCommand
  \/ ResetPlatformsCommand
  \/ DailyCleanupTick
  \/ \E c \in Slots : Step(c)

\* handlers overlapping freely, in the deployment with YouTube and Instagram
InitTwo == Init /\ configured = {"youtube", "instagram"}

Spec == InitTwo /\ [][Next]_vars

\* ------------------------------------------- one handler at a time
\* the same program when no trigger arrives while a handler is in flight,
\* in every deployment
Quiet == \A c \in Slots : ~InFlight(c)

NextSeq ==
  \/ Environment
  \/ Quiet /\ CronTick
  \/ Quiet /\ InitialCheck
  \/ Quiet /\ TriggerManualCheck
  \/ Quiet /\ CheckNowCommand
  \/ Quiet /\ ResetPlatformsCommand
  \/ Quiet /\ DailyCleanupTick
  \/ \E c \in Slots : Step(c)

SpecSeq == Init /\ [][NextSeq]_vars

\* ------------------------------------------------ checks on given lists
\* the timestamps of the given items: around the default cursor (24 hours
\* before the start) and around the stored cursor (an hour before the start)
Stamps ==
  {StartTime - DayHours - 1, StartTime - DayHours, StartTime - DayHours + 1,
   StartTime - 2, StartTime - 1, StartTime}

\* a fetched list from its timestamps; the most recent item has the highest id
ItemsOf(f) == [i \in 1..Len(f) |-> [id |-> Len(f) - i + 1, ts |-> f[i]]]

\* what a source can hold: up to MaxFetched items, most recent first, as the
\* pollers take them (videos[0] is latestVideo, posts[0] is latestPost)
FetchLists ==
  {ItemsOf(f) : f \in {g \in UNION {[1..n -> Stamps] : n \in 0..MaxFetched} :
                         \A i \in 1..(Len(g) - 1) : g[i] >= g[i + 1]}}

\* the rows an earlier process can have left for a source: none, one
\* without content, one with the content of an hour before the start
StoredRows ==
  {NoRow,
   [present |-> TRUE, check |-> StartTime - 1, cid |-> Null, cts |-> Null],
   [present |-> TRUE, check |-> StartTime - 1, cid |-> 1, cts |-> StartTime - 1]}

\* a running bot with one poller configured, a store left by an earlier
\* process, and a source whose items do not change
InitCursor ==
  /\ now = StartTime
  /\ \E p \in Platforms :
       /\ configured = {p}
       /\ \E l \in FetchLists : feed = [q \in Platforms |-> IF q = p THEN l ELSE <<>>]
       /\ \E row \in StoredRows :
            lastUpdates = [q \in Platforms |-> IF q = p THEN row ELSE NoRow]
  /\ sentNotifications = {}
  /\ channel = {}
  /\ proc = "up"
  /\ isReady = TRUE
  /\ isRunning = TRUE
  /\ tasks = StartTasks(FALSE, {}, DefaultInterval, {})
  /\ cronTasks = StartCron(FALSE, {}, tasks)
  /\ checkIntervalMinutes = DefaultInterval
  /\ api = NoCall
  /\ cronClock = NoClock
  /\ ig = NoScrape
  /\ silent = {}
  /\ initialTimers = 0
  /\ lastErrorSummaryTime = 0
  /\ cyc = [c \in Slots |-> IdleCycle]
  /\ runs = 0
  /\ owed = {}
  /\ crashed = {}

\* every handler has returned
Settled == \A c \in Slots : cyc[c].pc \in {"idle", "done"}

\* the steps of a scheduled cycle
CheckStep(c) ==
  \/ CheckRead(c)
  \/ CheckFetch(c)
  \/ CheckFilter(c)
  \/ CheckUpdate(c)
  \/ SendItem(c)
  \/ RecordItem(c)
  \/ ErrorSummary(c)
  \/ SummarySend(c)
  \/ Finish(c)

\* scheduled cycles one after the other
NextCursor ==
  \/ Tick
  \/ Settled /\ CronTick
  \/ \E c \in Slots : CheckStep(c)

SpecCursor == InitCursor /\ [][NextCursor]_vars

\* ------------------------------------------------ batches of new items
\* a running bot that follows Instagram, with an empty store and a source
\* that holds up to MaxFetched items
InitBatch ==
  /\ InitCursor
  /\ configured = {"instagram"}
  /\ lastUpdates = [p \in Platforms |-> NoRow]

\* scheduled cycles and /check-now commands one after the other
NextBatch ==
  \/ Settled /\ CronTick
  \/ Settled /\ CheckNowCommand
  \/ \E c \in Slots : CheckStep(c)

SpecBatch == InitBatch /\ [][NextBatch]_vars

\* ------------------------------------------------ manual checks
\* a triggerManualCheck that reports whether the checks succeeded
ManualCheckResultStrict(r) ==
  [success |-> r.pc = "done" /\ \A p \in Platforms : r.results[p] # "fail"]

\* triggerManualCheck once performScheduledCheck has settled: success: true
\* after the await returned, success: false from the catch
ManualCheckResult(r) == [success |-> r.pc = "done"]

\* every cycle is started by triggerManualCheck, one after the other
NextManual ==
  \/ Settled /\ TriggerManualCheck
  \/ \E c \in Slots : CheckStep(c)

SpecManual == InitBatch /\ [][NextManual]_vars

\* ------------------------------------------- the scheduler's lifecycle
\* start(), stop() and updateCheckInterval() contain no await of their own
\* and the awaits around them wait for promises that are already settled, so
\* a call runs to its end before any timer or I/O callback runs
Intervals == {MinInterval - 1, MinInterval, MaxInterval, MaxInterval + 1}

\* the record of a call that settles with res: whether the scheduler was
\* running, and whether a scheduled cycle was at its first source, when the
\* call was made
ApiCall(op, arg, res) ==
  [calls |-> api.calls + 1, op |-> op, arg |-> arg, res |-> res, was |-> isRunning,
   early |-> \E c \in Slots : /\ cyc[c].kind = "sched" /\ cyc[c].pi = 1
                               /\ cyc[c].pc \in {"read", "fetch", "filter", "update"}]

\* a stop() that drops the handlers in flight
StopInFlightCancelling(cy) == [c \in Slots |-> IdleCycle]

\* Scheduler.stop(): what the call does to the handlers in flight
StopInFlight(cy) == cy

\* a range check that lets MinInterval - 1 through
ValidIntervalLow(m) == m >= MinInterval - 1 /\ m <= MaxInterval

\* updateCheckInterval: not (minutes < 5 || minutes > 1440)
ValidInterval(m) == ~(m < MinInterval \/ m > MaxInterval)

\* Scheduler.start()
SchedulerStart ==
  /\ proc = "up"
  /\ api.calls < MaxCalls
  /\ tasks' = StartTasks(isRunning, tasks, checkIntervalMinutes,
                         TaskIds(tasks \cup cronTasks))
  /\ cronTasks' = StartCron(isRunning, cronTasks, tasks')
  /\ initialTimers' = StartTimers(isRunning, initialTimers)
  /\ isRunning' = TRUE
  /\ api' = ApiCall("start", 0, "ok")
  /\ UNCHANGED <<now, runs, feed, configured, lastUpdates, sentNotifications, channel,
                 proc, isReady, cronClock, ig, silent, checkIntervalMinutes,
                 lastErrorSummaryTime, cyc, owed, crashed>>

\* Scheduler.stop()
SchedulerStop ==
  /\ proc = "up"
  /\ api.calls < MaxCalls
  /\ cronTasks' = StopCron(isRunning, cronTasks, tasks)
  /\ tasks' = StopTasks(isRunning, tasks)
  /\ isRunning' = FALSE
  /\ cyc' = StopInFlight(cyc)
  /\ api' = ApiCall("stop", 0, "ok")
  /\ UNCHANGED <<now, runs, feed, configured, lastUpdates, sentNotifications, channel,
                 proc, isReady, cronClock, ig, silent, checkIntervalMinutes, initialTimers,
                 lastErrorSummaryTime, owed, crashed>>

\* Scheduler.updateCheckInterval(m): the range check, the assignment,
\* stop(), start()
UpdateCheckInterval(m) ==
  /\ proc = "up"
  /\ api.calls < MaxCalls
  /\ IF ValidInterval(m)
       THEN /\ checkIntervalMinutes' = m
            /\ tasks' = StartTasks(FALSE, StopTasks(isRunning, tasks), m,
                                   TaskIds(tasks \cup cronTasks))
            /\ cronTasks' = StartCron(FALSE, StopCron(isRunning, cronTasks, tasks),
                                      tasks')
            /\ initialTimers' = StartTimers(FALSE, initialTimers)
            /\ isRunning' = TRUE
            /\ cyc' = StopInFlight(cyc)
            /\ api' = ApiCall("update", m, "ok")
       ELSE /\ api' = ApiCall("update", m, "error")
            /\ UNCHANGED <<checkIntervalMinutes, tasks, cronTasks, initialTimers,
                           isRunning, cyc>>
  /\ UNCHANGED <<now, runs, feed, configured, lastUpdates, sentNotifications, channel,
                 proc, isReady, cronClock, ig, silent, lastErrorSummaryTime, owed, crashed>>

\* the steps of the handlers the scheduler's timers start
TimerStep(c) == CheckStep(c) \/ DailyCleanup(c)

\* the bot is started, the scheduler is called, its timers fire, one handler
\* at a time
NextSched ==
  \/ \E p \in Platforms : Publish(p)
  \/ Boot
  \/ SchedulerStart
  \/ SchedulerStop
  \/ \E m \in Intervals : UpdateCheckInterval(m)
  \/ Quiet /\ CronTick
  \/ Quiet /\ InitialCheck
  \/ Quiet /\ DailyCleanupTick
  \/ \E c \in Slots : TimerStep(c)

\* a handler in flight is not held back for ever: the event loop runs every
\* continuation whose promise has settled
FairSteps == \A c \in Slots : WF_vars(TimerStep(c))

SpecSched == InitTwo /\ [][NextSched]_vars /\ FairSteps

\* ------------------------------------------------ graceful shutdown
\* SocialMediaBot.shutdown() after a signal, one step per await; proc says
\* which await it stands at. Triggers that arrive after shutdown() began
\* are left out: the handlers considered are those already in flight.

\* isShuttingDown = true; sendShutdownNotification calls sendMessage
ShutdownBegin ==
  /\ proc = "up"
  /\ proc' = "notifying"
  /\ UNCHANGED <<now, runs, feed, configured, lastUpdates, sentNotifications, channel,
                 isReady, isRunning, tasks, cronTasks, checkIntervalMinutes,
                 api, cronClock, ig, silent, initialTimers, lastErrorSummaryTime,
                 cyc, owed, crashed>>

\* the notification's send settles (a failure is logged); the 2000 ms timer
\* is set
ShutdownNotified ==
  /\ proc = "notifying"
  /\ proc' = "waiting"
  /\ \E out \in SendOutcomes("shutdown", 0) :
       channel' = ChannelAfter(channel, "shutdown", 0, out)
  /\ UNCHANGED <<now, runs, feed, configured, lastUpdates, sentNotifications,
                 isReady, isRunning, tasks, cronTasks, checkIntervalMinutes,
                 api, cronClock, ig, silent, initialTimers, lastErrorSummaryTime,
                 cyc, owed, crashed>>

\* the timer fires: scheduler.stop() when it is running, then
\* discordService.shutdown() calls client.destroy()
ShutdownStop ==
  /\ proc = "waiting"
  /\ proc' = "destroying"
  /\ cronTasks' = StopCron(isRunning, cronTasks, tasks)
  /\ tasks' = StopTasks(isRunning, tasks)
  /\ isRunning' = FALSE
  /\ cyc' = StopInFlight(cyc)
  /\ UNCHANGED <<now, runs, feed, configured, lastUpdates, sentNotifications, channel,
                 isReady, checkIntervalMinutes, api, cronClock, ig, silent,
                 initialTimers, lastErrorSummaryTime, owed, crashed>>

\* client.destroy() settles: isReady = false, then database.close() is called
ShutdownDestroyed ==
  /\ proc = "destroying"
  /\ proc' = "closing"
  /\ isReady' = FALSE
  /\ UNCHANGED <<now, runs, feed, configured, lastUpdates, sentNotifications, channel,
                 isRunning, tasks, cronTasks, checkIntervalMinutes,
                 api, cronClock, ig, silent, initialTimers, lastErrorSummaryTime,
                 cyc, owed, crashed>>

\* database.close() settles: shutdown() returns and the signal handler
\* calls process.exit(0)
ShutdownClosed ==
  /\ proc = "closing"
  /\ proc' = "down"
  /\ ProcessEnds
  /\ UNCHANGED <<now, runs, feed, configured, lastUpdates, sentNotifications, channel,
                 owed, crashed>>

\* a signal arrives while cycles are in flight or between two cycles
NextShutdown ==
  \/ Settled /\ CronTick
  \/ ShutdownBegin
  \/ ShutdownNotified
  \/ ShutdownStop
  \/ ShutdownDestroyed
  \/ ShutdownClosed
  \/ \E c \in Slots : CheckStep(c)

SpecShutdown == InitBatch /\ [][NextShutdown]_vars

\* ------------------------------------------------ the retention sweep
\* sent_at of the rows an earlier process can have left: around 30 days
\* before the start, and at the start
SentStamps ==
  {StartTime - RetentionHours - 1, StartTime - RetentionHours,
   StartTime - RetentionHours + 1, StartTime}

\* the (platform, content_id) pairs of the rows given from the start
SweepKeys == {<<"youtube", 1>>, <<"youtube", 2>>, <<"instagram", 1>>}

\* the tables of sent_notifications an earlier process can have left: at
\* most one row per (platform, content_id)
SentTables ==
  {{[platform |-> k[1], content_id |-> k[2], msg |-> 1, sent_at |-> f[k]] : k \in ks} :
     <<ks, f>> \in (SUBSET SweepKeys) \X [SweepKeys -> SentStamps]}

\* a running bot whose store holds rows of an earlier process
InitSweep ==
  /\ now = StartTime
  /\ feed = [p \in Platforms |-> <<>>]
  /\ configured = {"youtube", "instagram"}
  /\ \E row \in StoredRows : lastUpdates = [p \in Platforms |-> row]
  /\ sentNotifications \in SentTables
  /\ channel = {}
  /\ proc = "up"
  /\ isReady = TRUE
  /\ isRunning = TRUE
  /\ tasks = StartTasks(FALSE, {}, DefaultInterval, {})
  /\ cronTasks = StartCron(FALSE, {}, tasks)
  /\ checkIntervalMinutes = DefaultInterval
  /\ api = NoCall
  /\ cronClock = NoClock
  /\ ig = NoScrape
  /\ silent = {}
  /\ initialTimers = 0
  /\ lastErrorSummaryTime = 0
  /\ cyc = [c \in Slots |-> IdleCycle]
  /\ runs = 0
  /\ owed = {}
  /\ crashed = {}

\* daily cleanups one after the other, an hour apart or not
NextSweep ==
  \/ Tick
  \/ Settled /\ DailyCleanupTick
  \/ \E c \in Slots : DailyCleanup(c)
  \/ \E c \in Slots : Finish(c)

SpecSweep == InitSweep /\ [][NextSweep]_vars

\* ------------------------------------------------ the main-check ticks
\* the intervals updateCheckInterval accepts that the ticks are followed for
CronIntervals == {MinInterval, 7, DefaultInterval, 45, MinutesPerHour, MaxInterval}

\* the minutes of the hour at which '*/N * * * *' fires: the step N is
\* applied to the minute field's range 0..59
CronMatches(every, minute) == minute % every = 0

\* the main-check task fires in this minute
MainCheckFires(cron, minute) ==
  \E task \in cron : task.name = "main-check" /\ CronMatches(task.every, minute)

\* a scheduler started with a configured interval at the top of an hour
InitCron ==
  /\ now = StartTime
  /\ feed = [p \in Platforms |-> <<>>]
  /\ configured = {"youtube", "instagram"}
  /\ lastUpdates = [p \in Platforms |-> NoRow]
  /\ sentNotifications = {}
  /\ channel = {}
  /\ proc = "up"
  /\ isReady = TRUE
  /\ isRunning = TRUE
  /\ checkIntervalMinutes \in CronIntervals
  /\ tasks = StartTasks(FALSE, {}, checkIntervalMinutes, {})
  /\ cronTasks = StartCron(FALSE, {}, tasks)
  /\ api = NoCall
  /\ cronClock = NoClock
  /\ ig = NoScrape
  /\ silent = {}
  /\ initialTimers = 0
  /\ lastErrorSummaryTime = 0
  /\ cyc = [c \in Slots |-> IdleCycle]
  /\ runs = 0
  /\ owed = {}
  /\ crashed = {}

\* a minute passes; when the main-check task fires in the new minute, the
\* time since its previous tick is the gap between the two
CronMinute ==
  /\ proc = "up"
  /\ LET minute == (cronClock.minute + 1) % MinutesPerHour
         since == IF cronClock.since = Null THEN Null ELSE cronClock.since + 1
     IN cronClock' =
          IF MainCheckFires(cronTasks, minute)
            THEN [minute |-> minute, since |-> 0, gap |-> since]
            ELSE [minute |-> minute, since |-> since, gap |-> cronClock.gap]
  /\ UNCHANGED <<now, runs, feed, configured, lastUpdates, sentNotifications, channel,
                 proc, isReady, isRunning, tasks, cronTasks, checkIntervalMinutes,
                 api, ig, silent, initialTimers, lastErrorSummaryTime, cyc, owed,
                 crashed>>

SpecCron == InitCron /\ [][CronMinute]_vars

\* ------------------------------------------------ sources that do not answer
\* a running bot with the three pollers configured; some of the sources
\* accept a request and never answer it
InitHang ==
  /\ now = StartTime
  /\ feed = [p \in Platforms |-> <<>>]
  /\ configured = Platforms
  /\ lastUpdates = [p \in Platforms |-> NoRow]
  /\ sentNotifications = {}
  /\ channel = {}
  /\ proc = "up"
  /\ isReady = TRUE
  /\ isRunning = TRUE
  /\ checkIntervalMinutes = DefaultInterval
  /\ tasks = StartTasks(FALSE, {}, checkIntervalMinutes, {})
  /\ cronTasks = StartCron(FALSE, {}, tasks)
  /\ api = NoCall
  /\ cronClock = NoClock
  /\ ig = NoScrape
  /\ silent \in SUBSET Platforms
  /\ initialTimers = 0
  /\ lastErrorSummaryTime = 0
  /\ cyc = [c \in Slots |-> IdleCycle]
  /\ runs = 0
  /\ owed = {}
  /\ crashed = {}

\* scheduled cycles one after the other
NextHang ==
  \/ \E p \in Platforms : Publish(p)
  \/ Quiet /\ CronTick
  \/ \E c \in Slots : CheckStep(c)

\* the event loop runs every continuation whose promise has settled
FairChecks == \A c \in Slots : WF_vars(CheckStep(c))

SpecHang == InitHang /\ [][NextHang]_vars /\ FairChecks

\* ------------------------------------------------ the Instagram fetch
\* InstagramService.scrapeProfile in detail; ig.t is Date.now() in units of
\* 5 seconds. A call is at "wait" in respectRateLimit's timer, at "get" in
\* axios.get, at "retry" in the timer that follows a 429
ScrapeCalls == 1..MaxScrapes

RECURSIVE Pow2(_)
\* Math.pow(2, n)
Pow2(n) == IF n = 0 THEN 1 ELSE 2 * Pow2(n - 1)

\* respectRateLimit: currentDelay = rateLimitDelay * 2 ^ failureCount
CurrentDelay(fc) == RateLimitDelay * Pow2(fc)

\* respectRateLimit: waitTime = currentDelay - (now - lastRequestTime)
WaitTime(s) == CurrentDelay(s.failureCount) - (s.t - s.lastRequestTime)

\* respectRateLimit once no wait is left: lastRequestTime = Date.now(), then
\* axios.get is called
SendRequest(s, k) ==
  [s EXCEPT !.lastRequestTime = s.t,
            !.calls[k].pc = "get",
            !.calls[k].wake = s.t,
            !.calls[k].fetches = @ + 1]

\* the head of the while loop up to the first await: respectRateLimit waits
\* when less than currentDelay has passed since lastRequestTime
EnterAttempt(s, k) ==
  IF s.t - s.lastRequestTime < CurrentDelay(s.failureCount)
    THEN [s EXCEPT !.calls[k].pc = "wait", !.calls[k].wake = s.t + WaitTime(s)]
    ELSE SendRequest(s, k)

\* a catch block that leaves attempt alone unless the error is a 429
AfterFailureUncounted(s, k, out) ==
  LET attempt == s.calls[k].attempt + (IF out = "429" THEN 1 ELSE 0)
      q == [s EXCEPT !.failureCount = @ + 1,
                     !.calls[k].attempt = attempt,
                     !.calls[k].last = out]
  IN IF out = "429" /\ attempt < MaxRetries
       THEN [q EXCEPT !.calls[k].pc = "retry",
                      !.calls[k].wait = Pow2(attempt) * RetryBase,
                      !.calls[k].wake = s.t + Pow2(attempt) * RetryBase]
       ELSE IF attempt >= MaxRetries
         THEN [q EXCEPT !.calls[k].pc = "returned", !.calls[k].result = "fail"]
         ELSE EnterAttempt(q, k)

\* the catch block of scrapeProfile: attempt++, failureCount++; a 429 with
\* attempts left waits 2 ^ attempt * 30000 ms and continues; with no attempt
\* left the failure result is returned; any other error goes round the loop
AfterFailure(s, k, out) ==
  LET attempt == s.calls[k].attempt + 1
      q == [s EXCEPT !.failureCount = @ + 1,
                     !.calls[k].attempt = attempt,
                     !.calls[k].last = out]
  IN IF out = "429" /\ attempt < MaxRetries
       THEN [q EXCEPT !.calls[k].pc = "retry",
                      !.calls[k].wait = Pow2(attempt) * RetryBase,
                      !.calls[k].wake = s.t + Pow2(attempt) * RetryBase]
       ELSE IF attempt >= MaxRetries
         THEN [q EXCEPT !.calls[k].pc = "returned", !.calls[k].result = "fail"]
         ELSE EnterAttempt(q, k)

\* the page was fetched and parsed: failureCount = 0, the result is returned
AfterSuccess(s, k) ==
  [s EXCEPT !.failureCount = 0,
            !.calls[k].pc = "returned",
            !.calls[k].last = "ok",
            !.calls[k].result = "ok"]

ScrapeFrame ==
  UNCHANGED <<now, runs, feed, configured, lastUpdates, sentNotifications, channel,
              proc, isReady, isRunning, tasks, cronTasks, checkIntervalMinutes,
              api, cronClock, silent, initialTimers, lastErrorSummaryTime, cyc,
              owed, crashed>>

\* checkForNewPosts calls scrapeProfile()
ScrapeProfile(k) ==
  /\ ig.calls[k].pc = "idle"
  /\ \A j \in ScrapeCalls : j < k => ig.calls[j].pc # "idle"
  /\ ig' = EnterAttempt(ig, k)
  /\ ScrapeFrame

\* the timer of respectRateLimit fires
RateLimitElapsed(k) ==
  /\ ig.calls[k].pc = "wait"
  /\ ig.t >= ig.calls[k].wake
  /\ ig' = SendRequest(ig, k)
  /\ ScrapeFrame

\* axios.get settles: a page, a 429, or another error (the timeout included)
Response(k) ==
  /\ ig.calls[k].pc = "get"
  /\ \E out \in {"ok", "429", "error"} :
       ig' = IF out = "ok" THEN AfterSuccess(ig, k) ELSE AfterFailure(ig, k, out)
  /\ ScrapeFrame

\* the timer that follows a 429 fires: continue
RetryElapsed(k) ==
  /\ ig.calls[k].pc = "retry"
  /\ ig.t >= ig.calls[k].wake
  /\ ig' = EnterAttempt(ig, k)
  /\ ScrapeFrame

\* the timers that are pending, the requests that are out
Timers == {k \in ScrapeCalls : ig.calls[k].pc \in {"wait", "retry"}}
Requests == {k \in ScrapeCalls : ig.calls[k].pc = "get"}

\* time passes: to the next timer, or by one unit while a request is out or
\* a call can still come inside the rate-limit window; no timer is passed
\* over and no request outlives its timeout
ScrapeClock ==
  /\ \E t \in {ig.calls[k].wake : k \in Timers} \cup
              (IF \/ Requests # {}
                  \/ /\ \E k \in ScrapeCalls : ig.calls[k].pc = "idle"
                     /\ ig.t - ig.lastRequestTime < CurrentDelay(ig.failureCount)
                 THEN {ig.t + 1} ELSE {}) :
       /\ t > ig.t
       /\ \A k \in Timers : t <= ig.calls[k].wake
       /\ \A k \in Requests : t <= ig.calls[k].wake + FetchTimeout
       /\ ig' = [ig EXCEPT !.t = t]
  /\ ScrapeFrame

ScrapeStep(k) == RateLimitElapsed(k) \/ Response(k) \/ RetryElapsed(k)

NextScrape ==
  \/ \E k \in ScrapeCalls : ScrapeProfile(k)
  \/ \E k \in ScrapeCalls : ScrapeStep(k)
  \/ ScrapeClock

\* timers fire, requests settle, time passes
FairScrape == WF_vars(ScrapeClock) /\ \A k \in ScrapeCalls : WF_vars(ScrapeStep(k))

\* a running bot whose Instagram poller has made no request yet
InitScrape == InitCron /\ checkIntervalMinutes = DefaultInterval

SpecScrape == InitScrape /\ [][NextScrape]_vars /\ FairScrape

\* ================================================================ claims
\* C1: over any sequence of check cycles and process restarts, each content
\* item (source, content id) is sent to the notification channel at most once.
C1_AtMostOnce ==
  \A p \in Platforms : \A id \in Ids(feed[p]) :
    Cardinality(Delivered(channel, p, id)) <= 1

\* C2: at most one check cycle (scheduled, initial, manual, /check-now) is in
\* flight at any time.
C2_SingleActiveCycle ==
  Cardinality({c \in CheckCycles : InFlight(c)}) <= 1

\* C3: an item whose channel send failed stays eligible: when a later cycle's
\* fetch for that source still returns it, checkForNew reports it as new
\* content again.
C3_FailedSendStaysEligible ==
  \A c \in CheckCycles :
    cyc[c].pc = "update" =>
      \A o \in cyc[c].mustReport :
        o.why = "sendfail" => o.id \in Ids(cyc[c].newContent[Cur(cyc[c])])

\* C4: after a crash in the middle of a cycle, between determining a
\* source's new items and sending all of them, the source's cursor is the
\* one the cycle found, and the next cycle reports the unsent items as new.
C4_CrashLeavesCursor ==
  /\ proc = "down" =>
       \A x \in crashed : x.ids # {} => lastUpdates[x.p] = x.pre
  /\ \A c \in CheckCycles :
       cyc[c].pc = "update" =>
         \A o \in cyc[c].mustReport :
           o.why = "crash" => o.id \in Ids(cyc[c].newContent[Cur(cyc[c])])

\* C5: within one cycle, no send for a source happens after that source's
\* cursor was written by updateLastCheck in the same cycle.
C5_UpdateAfterSends ==
  \A c \in CheckCycles :
    cyc[c].pc = "send" => Cur(cyc[c]) \notin cyc[c].updated
\* the handler in slot c takes a step in which the channel did not accept
\* the item it was sending
FailedSend(c) ==
  /\ cyc[c].pc = "send"
  /\ cyc'[c] # cyc[c]
  /\ proc' = proc
  /\ channel' = channel

\* C6: when sendSocialMediaUpdate fails to send an item (channel error, bot
\* not ready), no sent_notifications row is created for it, isNotificationSent
\* keeps its value and the error reaches the caller: the scheduler's loop logs
\* it and goes on, /check-now ends.  Every row belongs to an accepted message.
C6_FailedSendNotRecorded ==
  [][/\ \A c \in Slots :
          FailedSend(c) =>
            LET p == Cur(cyc[c])
                id == cyc[c].newContent[p][cyc[c].si].id
            IN /\ cyc'[c].pc # "record"
               /\ <<p, id>> \notin cyc'[c].recorded
               /\ \A q \in Platforms, i \in 1..MaxItems :
                    IsNotificationSent(sentNotifications', q, i)
                      = IsNotificationSent(sentNotifications, q, i)
               /\ [p |-> p, id |-> id, why |-> "sendfail"] \in owed'
               /\ cyc[c].kind = "cmd" => cyc'[c].pc = "done"
     /\ \A r \in sentNotifications' :
          \E m \in channel' :
            m.platform = r.platform /\ m.id = r.content_id /\ m.msg = r.msg
    ]_vars

C6_Witness ==
  \E c \in CheckCycles : \E o \in owed :
    /\ o.why = "sendfail"
    /\ <<o.p, o.id>> \in cyc[c].attempted
    /\ <<o.p, o.id>> \notin cyc[c].recorded
    /\ ~IsNotificationSent(sentNotifications, o.p, o.id)
    /\ Delivered(channel, o.p, o.id) = {}

\* the rows of one (platform, content_id)
RowsOf(sn, p, id) == {r \in sn : r.platform = p /\ r.content_id = id}

\* C7: recordSentNotification is idempotent on its key: after any number of
\* calls for one (platform, content_id) exactly one row exists for the pair,
\* holding the last call's message id, and isNotificationSent is true from
\* the first call on (the retention sweep is the only step that removes rows).
C7_RecordIdempotent ==
  [][/\ \A p \in Platforms, id \in 1..MaxItems :
          /\ Cardinality(RowsOf(sentNotifications', p, id)) <= 1
          /\ (IsNotificationSent(sentNotifications, p, id)
                /\ \A c \in Slots : cyc[c].pc # "sweep")
               => IsNotificationSent(sentNotifications', p, id)
     /\ \A c \in Slots :
          (cyc[c].pc = "record" /\ cyc'[c].recorded # cyc[c].recorded
             /\ proc' = proc) =>
            LET p == Cur(cyc[c])
                id == cyc[c].newContent[p][cyc[c].si].id
            IN RowsOf(sentNotifications', p, id) =
                 {[platform |-> p, content_id |-> id, msg |-> cyc[c].message,
                   sent_at |-> now]}
    ]_vars

\* two handlers have recorded the same item, one row is left
C7_Witness ==
  \E c, d \in Slots : \E p \in Platforms, id \in 1..MaxItems :
    /\ c # d
    /\ <<p, id>> \in cyc[c].recorded \cap cyc[d].recorded
    /\ Cardinality(RowsOf(sentNotifications, p, id)) = 1
    /\ Cardinality(Delivered(channel, p, id)) = 2

\* C8: per-source failure isolation: a cycle in which one source's check
\* failed has still checked every other configured source, and a scheduled
\* cycle has attempted the dispatch of every new item of the others.
C8_FailureIsolation ==
  \A c \in CheckCycles :
    LET r == cyc[c]
    IN /\ (\/ r.pc \in {"summary", "sumsend", "done"}
           \/ r.kind = "cmd" /\ r.pc \in {"send", "record"})
         => \A p \in configured : r.results[p] # "none"
       /\ (r.kind = "sched" /\ r.pc \in {"summary", "sumsend", "done"})
         => \A p \in configured : \A id \in Ids(r.newContent[p]) :
              /\ <<p, id>> \in r.attempted
              /\ <<p, id>> \in r.recorded
                   => IsNotificationSent(sentNotifications, p, id)

\* a scheduled cycle whose first source failed has sent and recorded the
\* new item of a later source
C8_Witness ==
  \E c \in Slots :
    LET r == cyc[c]
        ps == PlatformsOf("sched")
    IN /\ r.kind = "sched"
       /\ r.pc \in {"summary", "sumsend", "done"}
       /\ \E i, j \in 1..Len(ps) :
            /\ i < j
            /\ r.results[ps[i]] = "fail"
            /\ r.results[ps[j]] = "ok"
            /\ \E id \in Ids(r.newContent[ps[j]]) :
                 /\ <<ps[j], id>> \in r.recorded
                 /\ IsNotificationSent(sentNotifications, ps[j], id)
                 /\ Delivered(channel, ps[j], id) # {}

\* C9: no failure inside a check cycle or a cleanup cycle leaves
\* performScheduledCheck / performDailyCleanup or changes the scheduler's
\* running state: the process does not exit on it, and while the process
\* lives the scheduler is running with both tasks scheduled.
C9_FailuresContained ==
  [][/\ proc' # "failed"
     /\ (proc = "up" /\ proc' = "up") =>
          /\ isRunning' = isRunning
          /\ tasks' = tasks
     /\ proc' = "up" =>
          /\ isRunning'
          /\ {t.name : t \in tasks'} = {"main-check", "daily-cleanup"}
          /\ cronTasks' = tasks'
    ]_vars

\* a scheduled cycle ended after a failed check whose error summary could
\* not be sent, and a cleanup cycle ended, with the scheduler still running
C9_Witness ==
  /\ proc = "up" /\ isRunning
  /\ {t.name : t \in cronTasks} = {"main-check", "daily-cleanup"}
  /\ lastErrorSummaryTime = 0
  /\ \E c \in Slots :
       /\ cyc[c].kind = "sched" /\ cyc[c].pc = "done"
       /\ \E p \in Platforms : cyc[c].results[p] = "fail"

\* C10 as stated: for every source the stored last_check_time never
\* decreases over any sequence of cycles and other operations on the store.
C10_NeverDecreases ==
  [][\A p \in Platforms :
       lastUpdates[p].present =>
         /\ lastUpdates'[p].present
         /\ lastUpdates'[p].check >= lastUpdates[p].check
    ]_vars

\* C10 amended: while a source's row exists its last_check_time never
\* decreases; every write stores the current time, which no stored value
\* exceeds; a row disappears only when /reset-platforms clears the table.
C10_MonotoneWhilePresent ==
  [][\A p \in Platforms :
       /\ (lastUpdates[p].present /\ lastUpdates'[p].present)
            => lastUpdates'[p].check >= lastUpdates[p].check
       /\ lastUpdates'[p].present => lastUpdates'[p].check <= now'
       /\ (lastUpdates'[p].present /\ lastUpdates'[p] # lastUpdates[p])
            => lastUpdates'[p].check = now
       /\ (lastUpdates[p].present /\ ~lastUpdates'[p].present)
            => \E c \in Slots : cyc[c].kind = "reset" /\ cyc[c].pc = "delete"
    ]_vars

\* a cycle has written a row over an older one it had read
C10_Witness ==
  \E c \in CheckCycles :
    /\ cyc[c].pc = "send"
    /\ cyc[c].lastUpdate.present
    /\ lastUpdates[Cur(cyc[c])].present
    /\ lastUpdates[Cur(cyc[c])].check > cyc[c].lastUpdate.check
\* the handler in slot c completes a successful check of platform p: its
\* updateLastCheck step ends with {success: true}
CheckSucceeds(c, p) ==
  /\ cyc[c].pc = "update"
  /\ Cur(cyc[c]) = p
  /\ proc' = proc
  /\ cyc'[c].results[p] = "ok"

\* C11: for every source, a check whose fetch succeeds advances the source's
\* last_check_time, also when no item is new and when no item was fetched.
C11_CheckTimeAdvances ==
  [][\A c \in Slots, p \in Platforms :
       CheckSucceeds(c, p) =>
         /\ lastUpdates'[p].present
         /\ lastUpdates'[p].check = now
    ]_vars

\* C12: when a source's fetch returns zero items, the stored last_content_id
\* and last_content_timestamp keep the values they had before the check
\* (null if there were none).
C12_EmptyFetchKeepsContent ==
  [][\A c \in Slots, p \in Platforms :
       (CheckSucceeds(c, p) /\ cyc[c].fetched = <<>>) =>
         /\ lastUpdates'[p].cid = lastUpdates[p].cid
         /\ lastUpdates'[p].cts = lastUpdates[p].cts
    ]_vars
\* the positions of a list whose item is newer than the cursor t
NewerThan(items, t) == {i \in 1..Len(items) : items[i].ts > t}

\* C13: cursor semantics: with a stored cursor timestamp T and no sent
\* records, checkForNew returns exactly the fetched items whose timestamp
\* is strictly greater than T, and afterwards the stored cursor is the id
\* and timestamp of the first fetched item.
C13_CursorSemantics ==
  [][\A c \in Slots, p \in Platforms :
       (/\ CheckSucceeds(c, p)
        /\ cyc[c].lastUpdate.present
        /\ cyc[c].lastUpdate.cts # Null
        /\ \A r \in sentNotifications : r.platform # p) =>
         LET f == cyc[c].fetched
             T == cyc[c].lastUpdate.cts
             new == cyc'[c].newContent[p]
         IN /\ \A i \in 1..Len(f) : (f[i].ts > T) <=> (f[i].id \in Ids(new))
            /\ Len(new) = Cardinality(NewerThan(f, T))
            /\ \A i, j \in 1..Len(new) : i < j => new[i].ts >= new[j].ts
            /\ f # <<>> =>
                 /\ lastUpdates'[p].cid = f[1].id
                 /\ lastUpdates'[p].cts = f[1].ts
    ]_vars

\* a check with a stored cursor T has fetched items newer than, equal to and
\* older than T, reports the newer one only and has stored the first item
C13_Witness ==
  \E c \in Slots :
    LET r == cyc[c]
        p == Cur(r)
    IN /\ r.pc = "send" /\ r.kind = "sched"
       /\ r.lastUpdate.present /\ r.lastUpdate.cts # Null
       /\ sentNotifications = {}
       /\ \E i, j, k \in 1..Len(r.fetched) :
            /\ r.fetched[i].ts > r.lastUpdate.cts
            /\ r.fetched[j].ts = r.lastUpdate.cts
            /\ r.fetched[k].ts < r.lastUpdate.cts
            /\ r.fetched[i].id \in Ids(r.newContent[p])
            /\ r.fetched[j].id \notin Ids(r.newContent[p])
       /\ lastUpdates[p].cts = r.fetched[1].ts

\* the row a check read holds no content timestamp
NoCursor(row) == ~row.present \/ row.cts = Null

\* C14: without a last_updates row, or with a null last_content_timestamp,
\* checkForNew uses the cursor now - 24 h: fetched items not newer than
\* that are not reported, unsent fetched items newer than that are.
C14_DefaultCursor ==
  [][\A c \in Slots, p \in Platforms :
       /\ (/\ cyc[c].pc = "read" /\ Cur(cyc[c]) = p
           /\ cyc'[c].pc = "fetch"
           /\ NoCursor(lastUpdates[p]))
            => cyc'[c].lastCheckTime = now - DayHours
       /\ (CheckSucceeds(c, p) /\ NoCursor(cyc[c].lastUpdate)) =>
            LET f == cyc[c].fetched
                new == cyc'[c].newContent[p]
            IN \A i \in 1..Len(f) :
                 /\ f[i].ts <= cyc[c].lastCheckTime => f[i].id \notin Ids(new)
                 /\ (/\ f[i].ts > cyc[c].lastCheckTime
                     /\ ~IsNotificationSent(sentNotifications, p, f[i].id))
                      => f[i].id \in Ids(new)
    ]_vars

\* a check without a stored cursor has fetched an item older than 24 hours,
\* which it does not report, and a newer one, which it is about to send
C14_Witness ==
  \E c \in Slots :
    LET r == cyc[c]
        p == Cur(r)
    IN /\ r.pc = "send" /\ r.kind = "sched"
       /\ NoCursor(r.lastUpdate)
       /\ r.lastCheckTime = StartTime - DayHours
       /\ \E i, j \in 1..Len(r.fetched) :
            /\ r.fetched[i].ts > r.lastCheckTime
            /\ r.fetched[i].id \in Ids(r.newContent[p])
            /\ r.fetched[j].ts < r.lastCheckTime
            /\ r.fetched[j].id \notin Ids(r.newContent[p])

\* C15: two consecutive successful check cycles whose fetches return the
\* same non-empty list: the second cycle's checkForNew returns no new
\* content, whatever the first cycle reported.
C15_SecondCycleEmpty ==
  [][\A c, d \in Slots, p \in Platforms :
       (/\ CheckSucceeds(c, p)
        /\ runs = 2
        /\ d # c
        /\ cyc[d].pc = "done"
        /\ cyc[d].results[p] = "ok"
        /\ cyc[d].totalChecked[p] > 0
        /\ cyc[c].fetched = feed[p]
        /\ Len(feed[p]) = cyc[d].totalChecked[p])
         => cyc'[c].newContent[p] = <<>>
    ]_vars

\* the first cycle reported an item whose send failed, the second cycle
\* fetched the same list and reports nothing
C15_Witness ==
  \E c, d \in Slots : \E p \in Platforms :
    /\ c # d
    /\ runs = 2
    /\ cyc[d].pc = "done" /\ cyc[d].results[p] = "ok"
    /\ cyc[d].totalChecked[p] = Len(feed[p])
    /\ cyc[d].newContent[p] # <<>>
    /\ cyc[d].recorded = {}
    /\ cyc[c].pc = "summary" /\ cyc[c].results[p] = "ok"
    /\ cyc[c].totalChecked[p] = Len(feed[p])
    /\ Len(feed[p]) > 1
    /\ cyc[c].newContent[p] = <<>>
    /\ sentNotifications = {}

\* the step is a call of the scheduler's operation op
Called(op) == api'.calls = api.calls + 1 /\ api'.op = op

\* the started cron tasks of a name
Live(cron, name) == {t \in cron : t.name = name}

\* C16: start() on a scheduler that is already running is a no-op: the Map
\* of tasks and the started cron tasks are the same as before, no further
\* initial check is pending, and the scheduler stays running.
C16_StartWhileRunning ==
  [][(Called("start") /\ isRunning) =>
       /\ tasks' = tasks
       /\ cronTasks' = cronTasks
       /\ initialTimers' = initialTimers
       /\ isRunning'
    ]_vars

\* start() was called on a running scheduler, which runs its two tasks
C16_Witness ==
  /\ api.op = "start" /\ api.was
  /\ isRunning
  /\ Cardinality(Live(cronTasks, "main-check")) = 1
  /\ Cardinality(Live(cronTasks, "daily-cleanup")) = 1

\* C17 as stated: while the scheduler is stopped no timer starts a check
\* cycle or a cleanup cycle, the delayed initial check included.
C17_NoCycleWhileStopped ==
  [][(proc = "up" /\ ~isRunning) => runs' = runs]_vars

C19_InvalidIntervalRejected ==
  [][(Called("update") /\ (api'.arg < MinInterval \/ api'.arg > MaxInterval)) =>
       /\ api'.res = "error"
       /\ checkIntervalMinutes' = checkIntervalMinutes
       /\ isRunning' = isRunning
       /\ tasks' = tasks
       /\ cronTasks' = cronTasks
       /\ initialTimers' = initialTimers
    ]_vars

\* an interval above the range was refused after an earlier call had set
\* the interval to the lowest accepted value, which is still configured
C19_Witness ==
  /\ api.op = "update" /\ api.res = "error" /\ api.arg = MaxInterval + 1
  /\ api.calls = 2
  /\ checkIntervalMinutes = MinInterval
  /\ isRunning
  /\ \E t \in cronTasks : t.name = "main-check" /\ t.every = MinInterval

Summaries(ch) == {m \in ch : m.platform = "summary"}

\* C22 as stated: no two error summaries accepted by the channel were sent
\* within one hour of each other, and a cycle sends a summary only when one
\* of the sources it checked failed.
C22_SummariesThrottled ==
  /\ \A m, n \in Summaries(channel) :
       m # n => (m.id - n.id > OneHour \/ n.id - m.id > OneHour)
  /\ \A c \in Slots :
       cyc[c].pc = "sumsend" => \E p \in configured : cyc[c].results[p] = "fail"

\* C23: a retention sweep that succeeds deletes exactly the sent_notifications
\* rows whose sent_at is more than 30 days old, keeps every younger row,
\* reports the number of rows it deleted, and no sweep touches last_updates.
C23_SweepExact ==
  [][\A c \in Slots :
       (cyc[c].pc = "sweep" /\ cyc'[c].pc = "done") =>
         /\ lastUpdates' = lastUpdates
         /\ IF cyc'[c].affectedRows = Null
              THEN sentNotifications' = sentNotifications
              ELSE /\ sentNotifications' =
                        {r \in sentNotifications : now - r.sent_at <= RetentionHours}
                   /\ cyc'[c].affectedRows =
                        Cardinality({r \in sentNotifications :
                                       now - r.sent_at > RetentionHours})
    ]_vars

\* a sweep has deleted one row and kept a row that is exactly 30 days old
C23_Witness ==
  \E c \in Slots :
    /\ cyc[c].kind = "cleanup" /\ cyc[c].pc = "done"
    /\ cyc[c].affectedRows = 1
    /\ \E r \in sentNotifications : r.sent_at = now - RetentionHours
    /\ \E p \in Platforms : lastUpdates[p].present

\* C21 as stated: while the scheduler runs with the configured interval N,
\* any two consecutive main-check ticks are exactly N minutes apart.
C21_TickEveryN ==
  cronClock.gap # Null => cronClock.gap = checkIntervalMinutes

\* C24 as stated: every scheduled check cycle eventually completes, also
\* when a source never answers.
C24_CycleCompletes ==
  \A c \in Slots :
    (cyc[c].kind = "sched" /\ InFlight(c)) ~> (cyc[c].pc = "done")

\* the step settles the request of call k with a failure of this kind
Failed(k, out) ==
  /\ ig.calls[k].pc = "get"
  /\ ig'.calls[k].attempt = ig.calls[k].attempt + 1
  /\ ig'.calls[k].last = out

\* C25 as stated: a fetch failure that is not a 429 increments failureCount
\* once and ends the scrapeProfile call with a failure result; the call
\* makes no further fetch attempt.
C25_OtherErrorsNotRetried ==
  [][\A k \in ScrapeCalls :
       Failed(k, "error") =>
         /\ ig'.failureCount = ig.failureCount + 1
         /\ ig'.calls[k].pc = "returned"
         /\ ig'.calls[k].result = "fail"
    ]_vars

\* C26 as stated: a scrapeProfile call makes at most 3 fetch attempts, and
\* the wait after a 429 is 30 s after the first failed attempt and 60 s
\* after the second.
C26_RetryWaits ==
  [][\A k \in ScrapeCalls :
       /\ ig'.calls[k].fetches <= MaxRetries
       /\ (Failed(k, "429") /\ ig'.calls[k].pc = "retry") =>
            ig'.calls[k].wait = RetryBase * Pow2(ig'.calls[k].attempt - 1)
    ]_vars

C28_RateLimitGap ==
  [][\A k \in ScrapeCalls :
       ig'.calls[k].fetches = ig.calls[k].fetches + 1 =>
         ig.t - ig.lastRequestTime >= RateLimitDelay * Pow2(ig.failureCount)
    ]_vars

\* C29 as stated: a failed send of one item does not abort its batch: a
\* scheduled cycle and a /check-now command that have ended have attempted
\* a send for every new item of every source whose check succeeded.
C29_BatchNotAborted ==
  \A c \in CheckCycles :
    cyc[c].pc = "done" =>
      \A p \in configured :
        cyc[c].results[p] = "ok" =>
          \A id \in Ids(cyc[c].newContent[p]) : <<p, id>> \in cyc[c].attempted

\* C30 as stated: sendNotifications sends the items of a batch one after
\* another in the order of the list; between two consecutive send attempts
\* of a batch of more than one item the inter-message delay has elapsed,
\* also after a failed attempt; a single item is followed by no delay.
C30_DelayBetweenSends ==
  \A c \in Slots :
    LET r == cyc[c]
    IN (r.kind = "sched" /\ r.pc = "send") =>
         LET items == r.newContent[Cur(r)]
         IN /\ \A i \in 1..Len(items) :
                 <<Cur(r), items[i].id>> \in r.attempted <=> i < r.si
            /\ \A i \in 1..(r.si - 1) : <<Cur(r), items[i].id>> \in r.delayed
            /\ Len(items) = 1 => r.delayed = {}

\* C31: checkForNew never reports an item for which sent_notifications holds
\* a row with the same platform and content id when the check looks it up,
\* also when the item's timestamp is greater than the cursor: what the
\* filter loop keeps is exactly the fetched items newer than the cursor
\* that have no such row. (Where handlers overlap a fetched list has one
\* item, so the loop's lookups are one step.)
C31_SentItemsNotReported ==
  [][\A c \in Slots :
       (cyc[c].pc = "filter" /\ cyc'[c].pc = "update") =>
         LET p == Cur(cyc[c])
             kept == cyc'[c].newContent[p]
         IN /\ \A id \in Ids(kept) : ~IsNotificationSent(sentNotifications, p, id)
            /\ Ids(kept) =
                 {it.id : it \in {cyc[c].fetched[i] : i \in 1..Len(cyc[c].fetched)}}
                   \ {id \in Ids(cyc[c].fetched) :
                        \/ IsNotificationSent(sentNotifications, p, id)
                        \/ \E i \in 1..Len(cyc[c].fetched) :
                             /\ cyc[c].fetched[i].id = id
                             /\ ~(cyc[c].fetched[i].ts > cyc[c].lastCheckTime)}]_vars

\* a check has dropped an item that is newer than its cursor and has a row
C31_Witness ==
  \E c \in Slots :
    /\ cyc[c].pc = "update"
    /\ \E i \in 1..Len(cyc[c].fetched) :
         /\ cyc[c].fetched[i].ts > cyc[c].lastCheckTime
         /\ IsNotificationSent(sentNotifications, Cur(cyc[c]), cyc[c].fetched[i].id)
         /\ cyc[c].fetched[i].id \notin Ids(cyc[c].newContent[Cur(cyc[c])])

\* C32: in every reachable state a sent_notifications row for a (platform,
\* content id) exists only if the channel accepted a send of that item
\* earlier, and the row's discord_message_id is the id the channel returned
\* for such a send; a row is written only by the handler that holds the
\* message of its own accepted send.
C32_RowsFollowSends ==
  /\ \A r \in sentNotifications :
       \E m \in channel :
         m.platform = r.platform /\ m.id = r.content_id /\ m.msg = r.msg
  /\ \A c \in Slots :
       cyc[c].pc = "record" =>
         \E m \in channel :
           /\ m.platform = Cur(cyc[c])
           /\ m.id = cyc[c].newContent[Cur(cyc[c])][cyc[c].si].id
           /\ m.msg = cyc[c].message

\* an item the channel accepted twice, its row holding the second message
C32_Witness ==
  \E r \in sentNotifications :
    /\ r.msg = 2
    /\ Cardinality(Delivered(channel, r.platform, r.content_id)) = 2

\* the step of handler c in which the check of source p ends with
\* success = false
CheckFails(c, p) ==
  /\ InFlight(c)
  /\ Cur(cyc[c]) = p
  /\ cyc[c].results[p] # "fail"
  /\ cyc'[c].results[p] = "fail"

\* C33 as stated: a check that ends with success = false, after a failed
\* fetch or after an exception such as a store error, leaves the source's
\* stored last_content_id and last_content_timestamp as they were before
\* the check.
C33_FailedCheckKeepsCursor ==
  [][\A c \in Slots : \A p \in Platforms :
       CheckFails(c, p) =>
         /\ lastUpdates'[p].cid = lastUpdates[p].cid
         /\ lastUpdates'[p].cts = lastUpdates[p].cts]_vars

\* C34 as stated: for every source the stored last_content_timestamp never
\* moves backwards: once it holds a value it never later holds null or a
\* smaller value.
C34_CursorNeverBackwards ==
  [][\A p \in Platforms :
       lastUpdates[p].cts # Null =>
         /\ lastUpdates'[p].cts # Null
         /\ lastUpdates'[p].cts >= lastUpdates[p].cts]_vars

\* the keys of the scheduler's task Map
TaskNames(ts) == {t.name : t \in ts}

\* C35: after every completed start(), stop() or updateCheckInterval() call,
\* in any order and number, isRunning is true exactly when the task Map
\* holds both 'main-check' and 'daily-cleanup', the Map is empty when the
\* flag is false, and the cron tasks started and not yet stopped are the
\* Map's own, never more than two.
C35_SchedulerConsistent ==
  /\ isRunning <=> TaskNames(tasks) = {"main-check", "daily-cleanup"}
  /\ ~isRunning => tasks = {}
  /\ Cardinality(tasks) = Cardinality(TaskNames(tasks))
  /\ cronTasks = tasks
  /\ Cardinality(cronTasks) <= 2

\* updateCheckInterval on a stopped scheduler after an earlier stop():
\* the scheduler runs again with two tasks on the new interval
C35_Witness ==
  /\ api.calls = MaxCalls
  /\ api.op = "update"
  /\ api.res = "ok"
  /\ ~api.was
  /\ isRunning
  /\ Cardinality(cronTasks) = 2
  /\ \E t \in cronTasks : t.name = "main-check" /\ t.every = api.arg

\* C36 as stated: the Instagram poller's failureCount stays bounded across
\* cycles: after any sequence of failed and successful checks it never
\* exceeds maxRetries, so the wait of respectRateLimit before a request
\* never exceeds rateLimitDelay * 2 ^ maxRetries.
C36_FailureCountBounded ==
  /\ ig.failureCount <= MaxRetries
  /\ \A k \in ScrapeCalls :
       ig.calls[k].pc = "wait" =>
         ig.calls[k].wake - ig.t <= RateLimitDelay * Pow2(MaxRetries)

\* the cycles whose performScheduledCheck has settled
Ended == {c \in Slots : cyc[c].kind = "sched" /\ cyc[c].pc = "done"}

IssuesStoreOp(c) ==
  /\ cyc'[c] # cyc[c]
  /\ \/ cyc'[c].pc = "read"
     \/ cyc'[c].pc = "filter"
          /\ FilterNew(cyc'[c].fetched, cyc'[c].lastCheckTime) # <<>>
     \/ cyc'[c].pc = "update"
          /\ ~(Cur(cyc'[c]) = "youtube" /\ cyc'[c].fetched = <<>>)
     \/ cyc'[c].pc = "record"

\* handler c takes a step in which it calls send on the channel
IssuesSend(c) ==
  /\ cyc[c].pc \in {"send", "sumsend"}
  /\ cyc'[c] # cyc[c]
  /\ isReady

\* C38 as stated: during graceful shutdown no store operation is issued
\* after database.close() and no channel send after the client's destroy():
\* a check cycle that was in flight when shutdown() began touches neither.
C38_NothingAfterClose ==
  [][\A c \in Slots :
       /\ (proc = "closing" /\ proc' = "closing") => ~IssuesStoreOp(c)
       /\ (proc \in {"destroying", "closing"} /\ proc' = proc) => ~IssuesSend(c)]_vars

====
